---- MODULE Spec2Model ----
(***************************************************************************)
(* The Cache class of 0x02-redis_basic/exercise.py: store, get, get_str,   *)
(* get_int, the decorators count_calls and call_history, and the store     *)
(* they write to.                                                          *)
(*                                                                         *)
(* Text is a sequence of code points and bytes a sequence of byte values,  *)
(* so that encoding, decoding, repr and int parsing are computed.          *)
(* A Python value is a record [t, n, s]: t its type, n its integer value,  *)
(* s its characters or bytes.  An exception is a value whose t is the      *)
(* exception's class.                                                      *)
(***************************************************************************)
EXTENDS Integers, Sequences, FiniteSets, TLC

\* ------------------------------------------------------------------ bounds
\* Python frames one thread may stack before RecursionError.
RecursionLimit == 4
\* Calls of store (or of a decorated operation) started in one behaviour.
MaxCalls == 3
\* Callers that share the store.
NumCallers == 2

\* ----------------------------------------------------------- Python values
None == [t |-> "None", n |-> 0, s |-> <<>>]
PyInt(i) == [t |-> "int", n |-> i, s |-> <<>>]
PyStr(cs) == [t |-> "str", n |-> 0, s |-> cs]
PyBytes(bs) == [t |-> "bytes", n |-> 0, s |-> bs]
Raised(cls) == [t |-> cls, n |-> 0, s |-> <<>>]

Exceptions ==
    {"RecursionError", "ConnectionError", "ResponseError", "ValueError",
     "UnicodeDecodeError", "AttributeError"}

IsRaised(v) == v.t \in Exceptions

\* ------------------------------------------------------------ conversions
RECURSIVE Digits(_)
\* The decimal digits of n >= 0, as character codes.
Digits(i) ==
    IF i < 10 THEN << 48 + i >> ELSE Digits(i \div 10) \o << 48 + (i % 10) >>

\* repr(i) of an int.
IntRepr(i) == IF i < 0 THEN << 45 >> \o Digits(0 - i) ELSE Digits(i)

RECURSIVE Utf8Encode(_)
\* str.encode(): code points below 0x800 (one or two bytes each).
Utf8Encode(cs) ==
    IF cs = << >> THEN << >>
    ELSE LET c == Head(cs) IN
         (IF c < 128 THEN << c >> ELSE << 192 + (c \div 64), 128 + (c % 64) >>)
         \o Utf8Encode(Tail(cs))

RECURSIVE Utf8Decode(_)
\* bytes.decode("utf-8") of bytes below 0xE0: [ok, s]; ok is FALSE where
\* Python raises UnicodeDecodeError.
Utf8Decode(bs) ==
    IF bs = << >> THEN [ok |-> TRUE, s |-> << >>]
    ELSE LET b == Head(bs) IN
         IF b < 128
         THEN LET r == Utf8Decode(Tail(bs)) IN
              [ok |-> r.ok, s |-> << b >> \o r.s]
         ELSE IF b >= 194 /\ b <= 223 /\ Len(bs) >= 2
                 /\ bs[2] >= 128 /\ bs[2] <= 191
         THEN LET r == Utf8Decode(Tail(Tail(bs))) IN
              [ok |-> r.ok, s |-> << (b - 192) * 64 + (bs[2] - 128) >> \o r.s]
         ELSE [ok |-> FALSE, s |-> << >>]

IsSpace(b) == b = 32 \/ (b >= 9 /\ b <= 13)
IsDigit(b) == b >= 48 /\ b <= 57

RECURSIVE LStrip(_)
LStrip(bs) ==
    IF bs # << >> /\ IsSpace(Head(bs)) THEN LStrip(Tail(bs)) ELSE bs

RECURSIVE RStrip(_)
RStrip(bs) ==
    IF bs # << >> /\ IsSpace(bs[Len(bs)])
    THEN RStrip(SubSeq(bs, 1, Len(bs) - 1)) ELSE bs

RECURSIVE DigitsValue(_, _)
\* The value of a run of digits and underscores, read left to right onto acc.
DigitsValue(bs, acc) ==
    IF bs = << >> THEN acc
    ELSE IF Head(bs) = 95 THEN DigitsValue(Tail(bs), acc)
    ELSE DigitsValue(Tail(bs), acc * 10 + (Head(bs) - 48))

\* int(bs) of bytes: surrounding whitespace dropped, an optional sign, then
\* digits that single underscores may separate; [ok, n], ok FALSE where
\* Python raises ValueError.
IntParse(bs) ==
    LET core == RStrip(LStrip(bs))
        signed == core # << >> /\ (core[1] = 45 \/ core[1] = 43)
        body == IF signed THEN Tail(core) ELSE core
        wellFormed ==
            /\ body # << >>
            /\ IsDigit(body[1])
            /\ IsDigit(body[Len(body)])
            /\ \A i \in 1..Len(body) : IsDigit(body[i]) \/ body[i] = 95
            /\ \A i \in 1..(Len(body) - 1) : ~(body[i] = 95 /\ body[i + 1] = 95)
        mag == DigitsValue(body, 0)
    IN  IF wellFormed
        THEN [ok |-> TRUE, n |-> IF signed /\ core[1] = 45 THEN 0 - mag ELSE mag]
        ELSE [ok |-> FALSE, n |-> 0]

HexDigit(h) == IF h < 10 THEN 48 + h ELSE 87 + h

RECURSIVE BytesReprBody(_)
\* The inside of repr(bytes): printable ASCII as it is (quote and backslash
\* escaped), any other byte as \xhh.
BytesReprBody(bs) ==
    IF bs = << >> THEN << >>
    ELSE LET b == Head(bs) IN
         (IF b = 39 \/ b = 92 THEN << 92, b >>
          ELSE IF b >= 32 /\ b <= 126 THEN << b >>
          ELSE << 92, 120, HexDigit(b \div 16), HexDigit(b % 16) >>)
         \o BytesReprBody(Tail(bs))

\* repr(v) for the values store takes; a str of printable characters without
\* quote or backslash.
Repr(v) ==
    CASE v.t = "int" -> IntRepr(v.n)
      [] v.t = "str" -> << 39 >> \o v.s \o << 39 >>
      [] v.t = "bytes" -> << 98, 39 >> \o BytesReprBody(v.s) \o << 39 >>
      [] OTHER -> << 78, 111, 110, 101 >>

\* str(args) of the one-element tuple (data,): "(" repr(data) ",)".
ArgsStr(data) == << 40 >> \o Repr(data) \o << 44, 41 >>

\* What the store's client sends for a value: bytes as they are, text
\* encoded, a number as its repr.
Encode(v) ==
    CASE v.t = "bytes" -> v.s
      [] v.t = "str" -> Utf8Encode(v.s)
      [] v.t = "int" -> IntRepr(v.n)
      [] OTHER -> << >>

\* ------------------------------------------------------------------- names
\* method.__qualname__ of the decorated functions: "Cache.store".
QualName == << 67, 97, 99, 104, 101, 46, 115, 116, 111, 114, 101 >>
\* f"{method.__qualname__}:inputs"
InputsKey == QualName \o << 58, 105, 110, 112, 117, 116, 115 >>
\* f"{method.__qualname__}:outputs"
OutputsKey == QualName \o << 58, 111, 117, 116, 112, 117, 116, 115 >>
\* str(uuid.uuid4()): the i-th key handed out, written "u<i>".
Uuid(i) == << 117 >> \o Digits(i)

\* ------------------------------------------------------- the store (Redis)
\* The database maps each key present to [type, str, list]: a string's bytes
\* or a list's entries.
StringEntry(bs) == [type |-> "string", str |-> bs, list |-> << >>]
ListEntry(es) == [type |-> "list", str |-> << >>, list |-> es]
EmptyDb == [k \in {} |-> StringEntry(<< >>)]

Put(d, k, e) == [x \in DOMAIN d \cup {k} |-> IF x = k THEN e ELSE d[x]]

\* flushdb(): every key of the database is removed.
RedisFlushdb(d) == EmptyDb

\* set(key, value): [db, reply]; an unreachable store (fail) raises and
\* writes nothing.
RedisSet(d, k, bs, fail) ==
    IF fail THEN [db |-> d, reply |-> Raised("ConnectionError")]
    ELSE [db |-> Put(d, k, StringEntry(bs)), reply |-> PyInt(1)]

\* get(key): the bytes, None for an absent key, an error for a list.
RedisGet(d, k, fail) ==
    IF fail THEN Raised("ConnectionError")
    ELSE IF k \notin DOMAIN d THEN None
    ELSE IF d[k].type # "string" THEN Raised("ResponseError")
    ELSE PyBytes(d[k].str)

\* incr(key): an absent key counts from 0; the value must be an integer in
\* its canonical decimal form.
RedisIncr(d, k, fail) ==
    IF fail THEN [db |-> d, reply |-> Raised("ConnectionError")]
    ELSE IF k \notin DOMAIN d
    THEN [db |-> Put(d, k, StringEntry(IntRepr(1))), reply |-> PyInt(1)]
    ELSE LET p == IntParse(d[k].str) IN
         IF d[k].type = "string" /\ p.ok /\ IntRepr(p.n) = d[k].str
         THEN [db |-> Put(d, k, StringEntry(IntRepr(p.n + 1))),
               reply |-> PyInt(p.n + 1)]
         ELSE [db |-> d, reply |-> Raised("ResponseError")]

\* rpush(key, value): appended at the tail; an absent key is an empty list.
RedisRpush(d, k, bs, fail) ==
    IF fail THEN [db |-> d, reply |-> Raised("ConnectionError")]
    ELSE IF k \notin DOMAIN d
    THEN [db |-> Put(d, k, ListEntry(<< bs >>)), reply |-> PyInt(1)]
    ELSE IF d[k].type # "list"
    THEN [db |-> d, reply |-> Raised("ResponseError")]
    ELSE [db |-> Put(d, k, ListEntry(Append(d[k].list, bs))),
          reply |-> PyInt(Len(d[k].list) + 1)]

\* lrange(key, 0, -1): the whole list, empty for an absent key.
RedisLrange(d, k) ==
    IF k \in DOMAIN d /\ d[k].type = "list" THEN d[k].list ELSE << >>

\* ----------------------------------------------------------------- frames
\* One Python frame: the function running, the method a decorator closed
\* over, where the frame is, its argument and the value its callee returned.
NewFrame(fn, method, data) ==
    [fn |-> fn, method |-> method, pc |-> "start", data |-> data, out |-> None]

NoFrame == NewFrame("", "", None)

\* What one step of a frame does: goto (the frame moves on), call (it
\* invokes callee and waits), return (value) or raise (value); db is the
\* store after the step and cmd the store command it had acknowledged.
Goto(d, f, cmd) ==
    [kind |-> "goto", db |-> d, frame |-> f, callee |-> NoFrame,
     value |-> None, cmd |-> cmd]
Invoke(d, f, callee) ==
    [kind |-> "call", db |-> d, frame |-> f, callee |-> callee,
     value |-> None, cmd |-> "none"]
Return(d, v, cmd) ==
    [kind |-> "return", db |-> d, frame |-> NoFrame, callee |-> NoFrame,
     value |-> v, cmd |-> cmd]
Raise(d, e) ==
    [kind |-> "raise", db |-> d, frame |-> NoFrame, callee |-> NoFrame,
     value |-> e, cmd |-> "none"]

\* ---------------------------------------------------- the Cache's functions
\* Cache.store as first defined: a fresh key, the data set under it, the key
\* returned.  key is what str(uuid.uuid4()) gave.
store(d, f, key, fail) ==
    LET r == RedisSet(d, Utf8Encode(key), Encode(f.data), fail) IN
    IF IsRaised(r.reply) THEN Raise(r.db, r.reply)
    ELSE Return(r.db, PyStr(key), "set")

\* The name Cache.store once the class body has run: the last binding made,
\* call_history's wrapper around the third definition of store.
CacheStore == [fn |-> "call_history", method |-> "store_with_call_history"]

\* self.store(data): a call of whatever Cache.store is bound to.
SelfStore(d, f) ==
    IF f.pc = "start"
    THEN Invoke(d, [f EXCEPT !.pc = "wait"],
                NewFrame(CacheStore.fn, CacheStore.method, f.data))
    ELSE Return(d, f.out, "none")

\* The second definition of store, the one count_calls decorates:
\* return self.store(data).
store_with_count_calls(d, f) == SelfStore(d, f)

\* The third definition of store, the one call_history decorates:
\* return self.store(data).
store_with_call_history(d, f) == SelfStore(d, f)

\* count_calls with the increment after the method instead of before it.
count_calls_incr_late(d, f, fail) ==
    CASE f.pc = "start" -> Goto(d, [f EXCEPT !.pc = "call"], "none")
      [] f.pc = "call" ->
           Invoke(d, [f EXCEPT !.pc = "wait"], NewFrame(f.method, "", f.data))
      [] OTHER ->
           LET r == RedisIncr(d, Utf8Encode(QualName), fail) IN
           IF IsRaised(r.reply) THEN Raise(r.db, r.reply)
           ELSE Return(r.db, f.out, "incr")

\* count_calls with the increment as a get followed by a set.
count_calls_read_then_set(d, f, fail) ==
    CASE f.pc = "start" ->
           LET v == RedisGet(d, Utf8Encode(QualName), fail) IN
           IF IsRaised(v) THEN Raise(d, v)
           ELSE Goto(d, [f EXCEPT !.pc = "set",
                                  !.out = PyInt(IF v = None THEN 0
                                                ELSE IntParse(v.s).n)], "get")
      [] f.pc = "set" ->
           LET r == RedisSet(d, Utf8Encode(QualName), IntRepr(f.out.n + 1), fail) IN
           IF IsRaised(r.reply) THEN Raise(r.db, r.reply)
           ELSE Goto(r.db, [f EXCEPT !.pc = "call", !.out = None], "incr")
      [] f.pc = "call" ->
           Invoke(d, [f EXCEPT !.pc = "wait"], NewFrame(f.method, "", f.data))
      [] OTHER -> Return(d, f.out, "none")

\* count_calls' wrapper: incr of the counter under method.__qualname__, then
\* the method, whose result is returned.
count_calls(d, f, fail) ==
    CASE f.pc = "start" ->
           LET r == RedisIncr(d, Utf8Encode(QualName), fail) IN
           IF IsRaised(r.reply) THEN Raise(r.db, r.reply)
           ELSE Goto(r.db, [f EXCEPT !.pc = "call"], "incr")
      [] f.pc = "call" ->
           Invoke(d, [f EXCEPT !.pc = "wait"], NewFrame(f.method, "", f.data))
      [] OTHER -> Return(d, f.out, "none")

\* call_history with the input pushed after the method instead of before it.
call_history_input_late(d, f, fail) ==
    CASE f.pc = "start" -> Goto(d, [f EXCEPT !.pc = "call"], "none")
      [] f.pc = "call" ->
           Invoke(d, [f EXCEPT !.pc = "wait"], NewFrame(f.method, "", f.data))
      [] f.pc = "resumed" ->
           LET r == RedisRpush(d, Utf8Encode(InputsKey),
                               Utf8Encode(ArgsStr(f.data)), fail) IN
           IF IsRaised(r.reply) THEN Raise(r.db, r.reply)
           ELSE Goto(r.db, [f EXCEPT !.pc = "output"], "rpush_inputs")
      [] OTHER ->
           LET r == RedisRpush(d, Utf8Encode(OutputsKey), Encode(f.out), fail) IN
           IF IsRaised(r.reply) THEN Raise(r.db, r.reply)
           ELSE Return(r.db, f.out, "rpush_outputs")

\* call_history pushing str(args) on the outputs list instead of the output.
call_history_logs_args(d, f, fail) ==
    CASE f.pc = "start" ->
           LET r == RedisRpush(d, Utf8Encode(InputsKey),
                               Utf8Encode(ArgsStr(f.data)), fail) IN
           IF IsRaised(r.reply) THEN Raise(r.db, r.reply)
           ELSE Goto(r.db, [f EXCEPT !.pc = "call"], "rpush_inputs")
      [] f.pc = "call" ->
           Invoke(d, [f EXCEPT !.pc = "wait"], NewFrame(f.method, "", f.data))
      [] OTHER ->
           LET r == RedisRpush(d, Utf8Encode(OutputsKey),
                               Utf8Encode(ArgsStr(f.data)), fail) IN
           IF IsRaised(r.reply) THEN Raise(r.db, r.reply)
           ELSE Return(r.db, f.out, "rpush_outputs")

\* call_history pushing the output first and the input after it.
call_history_output_first(d, f, fail) ==
    CASE f.pc = "start" -> Goto(d, [f EXCEPT !.pc = "call"], "none")
      [] f.pc = "call" ->
           Invoke(d, [f EXCEPT !.pc = "wait"], NewFrame(f.method, "", f.data))
      [] f.pc = "resumed" ->
           LET r == RedisRpush(d, Utf8Encode(OutputsKey), Encode(f.out), fail) IN
           IF IsRaised(r.reply) THEN Raise(r.db, r.reply)
           ELSE Goto(r.db, [f EXCEPT !.pc = "input"], "rpush_outputs")
      [] OTHER ->
           LET r == RedisRpush(d, Utf8Encode(InputsKey),
                               Utf8Encode(ArgsStr(f.data)), fail) IN
           IF IsRaised(r.reply) THEN Raise(r.db, r.reply)
           ELSE Return(r.db, f.out, "rpush_inputs")

\* call_history pushing str(args) at the head of the inputs list (lpush).
call_history_lpush(d, f, fail) ==
    CASE f.pc = "start" ->
           LET k == Utf8Encode(InputsKey)
               r == RedisRpush(d, k, Utf8Encode(ArgsStr(f.data)), fail)
               n == Len(r.db[k].list)
           IN  IF IsRaised(r.reply) THEN Raise(r.db, r.reply)
               ELSE Goto(Put(r.db, k, ListEntry(<< r.db[k].list[n] >>
                                                \o SubSeq(r.db[k].list, 1, n - 1))),
                         [f EXCEPT !.pc = "call"], "rpush_inputs")
      [] f.pc = "call" ->
           Invoke(d, [f EXCEPT !.pc = "wait"], NewFrame(f.method, "", f.data))
      [] OTHER ->
           LET r == RedisRpush(d, Utf8Encode(OutputsKey), Encode(f.out), fail) IN
           IF IsRaised(r.reply) THEN Raise(r.db, r.reply)
           ELSE Return(r.db, f.out, "rpush_outputs")

\* call_history's wrapper: str(args) pushed on the inputs list, then the
\* method, then its output pushed on the outputs list and returned.
call_history(d, f, fail) ==
    CASE f.pc = "start" ->
           LET r == RedisRpush(d, Utf8Encode(InputsKey), Utf8Encode(ArgsStr(f.data)), fail) IN
           IF IsRaised(r.reply) THEN Raise(r.db, r.reply)
           ELSE Goto(r.db, [f EXCEPT !.pc = "call"], "rpush_inputs")
      [] f.pc = "call" ->
           Invoke(d, [f EXCEPT !.pc = "wait"], NewFrame(f.method, "", f.data))
      [] OTHER ->
           LET r == RedisRpush(d, Utf8Encode(OutputsKey), Encode(f.out), fail) IN
           IF IsRaised(r.reply) THEN Raise(r.db, r.reply)
           ELSE Return(r.db, f.out, "rpush_outputs")

\* The converters get is called with: none, get_str's lambda
\* d.decode("utf-8"), int, and len as one more of the caller's own.
Converters == {"decode", "int", "len"}

\* fn(value) on the bytes the store returned.
Convert(fn, bs) ==
    CASE fn = "decode" ->
           LET r == Utf8Decode(bs) IN
           IF r.ok THEN PyStr(r.s) ELSE Raised("UnicodeDecodeError")
      [] fn = "int" ->
           LET r == IntParse(bs) IN
           IF r.ok THEN PyInt(r.n) ELSE Raised("ValueError")
      [] OTHER -> PyInt(Len(bs))

\* get without the test for a missing value: fn is called on what came.
get_converts_none(d, key, fn) ==
    LET value == RedisGet(d, Utf8Encode(key), FALSE) IN
    IF IsRaised(value) THEN [db |-> d, value |-> value, converted |-> FALSE]
    ELSE IF fn # "none"
    THEN [db |-> d, value |-> Convert(fn, value.s), converted |-> TRUE]
    ELSE [db |-> d, value |-> value, converted |-> FALSE]

\* get sending GETDEL instead of GET: the key is gone once read.
get_getdel(d, key, fn) ==
    LET value == RedisGet(d, Utf8Encode(key), FALSE)
        left == [k \in DOMAIN d \ {Utf8Encode(key)} |-> d[k]]
    IN  IF IsRaised(value) THEN [db |-> d, value |-> value, converted |-> FALSE]
        ELSE IF value = None THEN [db |-> d, value |-> None, converted |-> FALSE]
        ELSE IF fn # "none"
        THEN [db |-> left, value |-> Convert(fn, value.s), converted |-> TRUE]
        ELSE [db |-> left, value |-> value, converted |-> FALSE]

\* get writing what the converter made back under the key.
get_writes_back(d, key, fn) ==
    LET value == RedisGet(d, Utf8Encode(key), FALSE) IN
    IF IsRaised(value) THEN [db |-> d, value |-> value, converted |-> FALSE]
    ELSE IF value = None THEN [db |-> d, value |-> None, converted |-> FALSE]
    ELSE IF fn # "none"
    THEN LET v == Convert(fn, value.s) IN
         [db |-> IF IsRaised(v) THEN d
                 ELSE RedisSet(d, Utf8Encode(key), Encode(v), FALSE).db,
          value |-> v, converted |-> TRUE]
    ELSE [db |-> d, value |-> value, converted |-> FALSE]

\* Cache.get: [db, value, converted]: the store after the call (get sends
\* one command, a read), what get returns or raises, and whether it called
\* fn.  fn is "none" for a call without a converter.
get(d, key, fn) ==
    LET value == RedisGet(d, Utf8Encode(key), FALSE) IN
    IF IsRaised(value) THEN [db |-> d, value |-> value, converted |-> FALSE]
    ELSE IF value = None THEN [db |-> d, value |-> None, converted |-> FALSE]
    ELSE IF fn # "none"
    THEN [db |-> d, value |-> Convert(fn, value.s), converted |-> TRUE]
    ELSE [db |-> d, value |-> value, converted |-> FALSE]

\* Cache.get_str
get_str(d, key) == get(d, key, "decode")

\* get_int catching the converter's error and returning None.
get_int_none_on_error(d, key) ==
    LET g == get(d, key, "int") IN
    IF g.value.t = "ValueError" THEN [g EXCEPT !.value = None] ELSE g

\* Cache.get_int
get_int(d, key) == get(d, key, "int")

\* One step of frame f, by the function it runs.
\* ------------------------------------------------------------------ replay
\* A callable passed to replay: its __qualname__ and whether the attribute
\* _redis can be read off it.
PyMethod(qualname, has_redis) ==
    [t |-> "method", n |-> IF has_redis THEN 1 ELSE 0, s |-> qualname]

\* __qualname__ of the wrapper functions the decorators return:
\* "Cache.call_history.<locals>.wrapper" (the wrappers do not copy the
\* decorated function's name).
WrapperQualName ==
    << 67, 97, 99, 104, 101, 46, 99, 97, 108, 108, 95, 104, 105, 115, 116, 111, 114, 121, 46,
    60, 108, 111, 99, 97, 108, 115, 62, 46, 119, 114, 97, 112, 112, 101, 114 >>

\* cache.store as replay receives it: the bound wrapper, which has no
\* attribute _redis (the store client is cache._redis).
BoundStore == PyMethod(WrapperQualName, FALSE)

\* The texts of replay's two f-strings.
WasCalled == << 32, 119, 97, 115, 32, 99, 97, 108, 108, 101, 100, 32 >>
Times == << 32, 116, 105, 109, 101, 115, 58 >>
OpenArgs == << 40, 42 >>
Arrow == << 41, 32, 45, 62, 32 >>

RECURSIVE ReplayLines(_, _, _)
\* The loop over zip(inputs, outputs): one line per pair until one of the
\* two lists ends; an entry that is not UTF-8 ends the loop with the error,
\* the lines before it are printed.
ReplayLines(key, inputs, outputs) ==
    IF inputs = << >> \/ outputs = << >> THEN [value |-> None, printed |-> << >>]
    ELSE LET i == Utf8Decode(Head(inputs))
             o == Utf8Decode(Head(outputs))
         IN  IF ~i.ok \/ ~o.ok
             THEN [value |-> Raised("UnicodeDecodeError"), printed |-> << >>]
             ELSE LET rest == ReplayLines(key, Tail(inputs), Tail(outputs)) IN
                  [value |-> rest.value,
                   printed |-> << key \o OpenArgs \o i.s \o Arrow \o o.s >>
                               \o rest.printed]

\* lrange on a key that holds a string is refused by the store.
WrongType(d, k) == k \in DOMAIN d /\ d[k].type # "list"

\* What replay does once it has the counter's bytes.
ReplayFrom(d, key, bytes) ==
    LET count == Utf8Decode(bytes)
        ikey == Utf8Encode(key \o << 58, 105, 110, 112, 117, 116, 115 >>)
        okey == Utf8Encode(key \o << 58, 111, 117, 116, 112, 117, 116, 115 >>)
        lines == ReplayLines(key, RedisLrange(d, ikey), RedisLrange(d, okey))
    IN  IF ~count.ok
        THEN [db |-> d, value |-> Raised("UnicodeDecodeError"), printed |-> << >>]
        ELSE IF WrongType(d, ikey) \/ WrongType(d, okey)
        THEN [db |-> d, value |-> Raised("ResponseError"), printed |-> << >>]
        ELSE [db |-> d, value |-> lines.value,
              printed |-> << key \o WasCalled \o count.s \o Times >>
                          \o lines.printed]

\* replay that deletes the two history lists once it has printed them.
replay_clears_logs(d, method) ==
    LET key == method.s
        reply == RedisGet(d, Utf8Encode(key), FALSE)
        r == ReplayFrom(d, key, reply.s)
        keep == DOMAIN d \ {Utf8Encode(key \o << 58, 105, 110, 112, 117, 116, 115 >>),
                            Utf8Encode(key \o << 58, 111, 117, 116, 112, 117, 116, 115 >>)}
    IN  IF method.n # 1 \/ reply = None
        THEN [db |-> d, value |-> Raised("AttributeError"), printed |-> << >>]
        ELSE IF IsRaised(reply) THEN [db |-> d, value |-> reply, printed |-> << >>]
        ELSE IF IsRaised(r.value) THEN r
        ELSE [r EXCEPT !.db = [k \in keep |-> d[k]]]

\* replay taking a missing counter for the count 0.
replay_default_zero(d, method) ==
    LET key == method.s
        reply == RedisGet(d, Utf8Encode(key), FALSE)
    IN  IF method.n # 1
        THEN [db |-> d, value |-> Raised("AttributeError"), printed |-> << >>]
        ELSE IF IsRaised(reply) THEN [db |-> d, value |-> reply, printed |-> << >>]
        ELSE IF reply = None THEN ReplayFrom(d, key, << 48 >>)
        ELSE ReplayFrom(d, key, reply.s)

\* replay(method): [db, value, printed]. method._redis raises AttributeError
\* on a callable without the attribute, and so does .decode on the None the
\* store returns for a missing counter; nothing is printed before the
\* header.
replay(d, method) ==
    LET key == method.s
        reply == RedisGet(d, Utf8Encode(key), FALSE)
    IN  IF method.n # 1 \/ reply = None
        THEN [db |-> d, value |-> Raised("AttributeError"), printed |-> << >>]
        ELSE IF IsRaised(reply) THEN [db |-> d, value |-> reply, printed |-> << >>]
        ELSE ReplayFrom(d, key, reply.s)

\* Cache.__init__ that only connects.
Cache_init_keeps(d) == d

\* Cache.__init__: the store the new Cache starts with.
Cache_init(d) == RedisFlushdb(d)

FrameStep(d, f, key, fail) ==
    CASE f.fn = "store" -> store(d, f, key, fail)
      [] f.fn = "store_with_count_calls" -> store_with_count_calls(d, f)
      [] f.fn = "store_with_call_history" -> store_with_call_history(d, f)
      [] f.fn = "count_calls" -> count_calls(d, f, fail)
      [] OTHER -> call_history(d, f, fail)

\* ------------------------------------------------------------------- state
VARIABLES
    db,       \* the store's database
    threads,  \* each caller: its frames and its last call
    calls,    \* the finished calls of store, in the order they ended
    uuids     \* how many keys uuid4 has handed out

vars == << db, threads, calls, uuids >>

Callers == 1..NumCallers

\* The store commands one call had acknowledged, and the calls it made.
NoEffects ==
    [incr |-> 0, rpush_inputs |-> 0, rpush_outputs |-> 0, set |-> 0, get |-> 0,
     invoked |-> 0]

\* A caller: its frames, then its last call: the operation, its argument
\* and converter, what it returned or raised, whether it called the
\* converter, what it printed, and, when the call repeats the caller's call
\* before it (again), what that one returned (prev).
IdleThread ==
    [status |-> "idle", stack |-> << >>, op |-> "", arg |-> None, fn |-> "none",
     result |-> None, converted |-> FALSE, eff |-> NoEffects,
     printed |-> << >>, again |-> FALSE, prev |-> None]

\* The values the callers store.
StoreData ==
    {PyStr(<< 102, 111, 111 >>), PyInt(42), PyBytes(<< 195, 169 >>), PyStr(<< 233 >>)}

\* The keys the callers ask for.
GetKeys == {Uuid(1), Uuid(2), QualName, InputsKey}

\* Cache.__init__: a connection, and the database flushed.
Init ==
    /\ db = RedisFlushdb(EmptyDb)
    /\ threads = [t \in Callers |-> IdleThread]
    /\ calls = << >>
    /\ uuids = 0

Running == {t \in Callers : threads[t].status = "running"}

\* A caller starts op(data) with frame as its first frame.
Start(t, op, frame, data) ==
    /\ threads[t].status # "running"
    /\ Len(calls) + Cardinality(Running) < MaxCalls
    /\ threads' = [threads EXCEPT ![t] =
           [IdleThread EXCEPT !.status = "running", !.stack = << frame >>,
                              !.op = op, !.arg = data]]
    /\ UNCHANGED << db, calls, uuids >>

\* The thread once its call has ended with v (returned or raised).
Finished(th, v, eff) ==
    [th EXCEPT !.status = "done", !.stack = << >>, !.result = v, !.eff = eff]

\* The thread after the step r of its top frame; a call with the stack full
\* raises RecursionError, and nothing catches an exception.
AfterStep(th, r) ==
    LET n == Len(th.stack)
        eff == IF r.cmd = "none" THEN th.eff
               ELSE [th.eff EXCEPT ![r.cmd] = @ + 1]
    IN  CASE r.kind = "goto" ->
               [th EXCEPT !.stack[n] = r.frame, !.eff = eff]
          [] r.kind = "call" ->
               IF n >= RecursionLimit
               THEN Finished(th, Raised("RecursionError"), eff)
               ELSE [th EXCEPT !.stack = Append([th.stack EXCEPT ![n] = r.frame],
                                                r.callee),
                               !.eff = [eff EXCEPT !.invoked = @ + 1]]
          [] r.kind = "return" ->
               IF n = 1 THEN Finished(th, r.value, eff)
               ELSE [th EXCEPT !.stack =
                         [SubSeq(th.stack, 1, n - 1) EXCEPT ![n - 1] =
                             [th.stack[n - 1] EXCEPT !.out = r.value,
                                                     !.pc = "resumed"]],
                               !.eff = eff]
          [] OTHER -> Finished(th, r.value, eff)

\* One step of caller t's running call; fail: the store does not answer the
\* command this step sends.
Step(t, fail) ==
    /\ threads[t].status = "running"
    /\ LET th == threads[t]
           f == th.stack[Len(th.stack)]
           r == FrameStep(db, f, Uuid(uuids + 1), fail)
           th2 == AfterStep(th, r)
       IN  /\ db' = r.db
           /\ threads' = [threads EXCEPT ![t] = th2]
           /\ uuids' = IF f.fn = "store" THEN uuids + 1 ELSE uuids
           /\ calls' = IF th2.status = "done"
                       THEN Append(calls, [caller |-> t, op |-> th2.op,
                                           arg |-> th2.arg, result |-> th2.result,
                                           eff |-> th2.eff])
                       ELSE calls

\* cache.store(data)
StoreCall(t, data) ==
    Start(t, "store", NewFrame(CacheStore.fn, CacheStore.method, data), data)

\* The thread th after a call of get, get_str or get_int that ended with g.
Got(th, op, key, fn, g) ==
    LET again == th.status = "done" /\ th.op = op /\ th.arg = PyStr(key)
                   /\ th.fn = fn
    IN  [IdleThread EXCEPT !.status = "done", !.op = op, !.arg = PyStr(key),
                           !.fn = fn, !.result = g.value,
                           !.converted = g.converted, !.again = again,
                           !.prev = IF again THEN th.result ELSE None]

\* cache.get(key, fn)
GetCall(t, key, fn) ==
    /\ threads[t].status # "running"
    /\ LET g == get(db, key, fn) IN
          /\ db' = g.db
          /\ threads' = [threads EXCEPT ![t] = Got(threads[t], "get", key, fn, g)]
    /\ UNCHANGED << calls, uuids >>

\* cache.get_str(key)
GetStrCall(t, key) ==
    /\ threads[t].status # "running"
    /\ LET g == get_str(db, key) IN
          /\ db' = g.db
          /\ threads' = [threads EXCEPT ![t] = Got(threads[t], "get_str", key, "decode", g)]
    /\ UNCHANGED << calls, uuids >>

\* cache.get_int(key)
GetIntCall(t, key) ==
    /\ threads[t].status # "running"
    /\ LET g == get_int(db, key) IN
          /\ db' = g.db
          /\ threads' = [threads EXCEPT ![t] = Got(threads[t], "get_int", key, "int", g)]
    /\ UNCHANGED << calls, uuids >>

\* replay(method)
ReplayCall(t, method) ==
    /\ threads[t].status # "running"
    /\ LET r == replay(db, method) IN
          /\ db' = r.db
          /\ threads' = [threads EXCEPT ![t] =
                 [IdleThread EXCEPT !.status = "done", !.op = "replay",
                                    !.arg = method, !.result = r.value,
                                    !.printed = r.printed]]
    /\ UNCHANGED << calls, uuids >>

\* Cache(): one more Cache made on the same store; the call's record keeps
\* the number of keys the store held when it was made.
Construct(t) ==
    /\ threads[t].status # "running"
    /\ db' = Cache_init(db)
    /\ threads' = [threads EXCEPT ![t] =
           [IdleThread EXCEPT !.status = "done", !.op = "__init__",
                              !.arg = PyInt(Cardinality(DOMAIN db))]]
    /\ UNCHANGED << calls, uuids >>

\* The program: one caller, and a store that answers every command.
Next ==
    \/ \E data \in StoreData : StoreCall(1, data)
    \/ Step(1, FALSE)
    \/ \E key \in GetKeys, fn \in Converters \cup {"none"} : GetCall(1, key, fn)
    \/ \E key \in GetKeys : GetStrCall(1, key)
    \/ \E key \in GetKeys : GetIntCall(1, key)
    \/ ReplayCall(1, BoundStore)

Spec == Init /\ [][Next]_vars

\* ------------------------------------------- the decorators on their own
\* The values the callers of a decorated operation pass.
WrapData == {PyStr(<< 102, 111, 111 >>), PyInt(42)}

\* count_calls(store)(data): the counting wrapper around the first store.
\* Each caller makes one call: a caller's next call is another caller's.
CountedCall(t, data) ==
    threads[t].status = "idle" /\ Start(t, "count_calls", NewFrame("count_calls", "store", data), data)

\* call_history(store)(data): the history wrapper around the first store.
LoggedCall(t, data) ==
    threads[t].status = "idle" /\ Start(t, "call_history", NewFrame("call_history", "store", data), data)

\* Several callers of the two decorated operations, sharing a store that may
\* fail to answer any command.
NextWrap ==
    \/ \E t \in Callers, data \in WrapData : CountedCall(t, data)
    \/ \E t \in Callers, data \in WrapData : LoggedCall(t, data)
    \/ \E t \in Callers, fail \in BOOLEAN : Step(t, fail)

SpecWrap == Init /\ [][NextWrap]_vars

\* ------------------------------------------------- get on a written store
\* The bytes other clients of the store may have set under a key.
StoredBytes ==
    {<< 102, 111, 111 >>, << 52, 50 >>, << 195, 169 >>, << >>, << 32, 45, 55 >>,
     << 233 >>, << 49, 95, 48 >>}

\* The databases get is tried on: each of two keys absent or holding bytes.
Stores ==
    {[k \in ks |-> StringEntry(bs[k])] :
        ks \in SUBSET {Utf8Encode(Uuid(1)), Utf8Encode(Uuid(2))},
        bs \in [{Utf8Encode(Uuid(1)), Utf8Encode(Uuid(2))} -> StoredBytes]}

InitGet ==
    /\ db \in {d \in Stores : TRUE}
    /\ threads = [t \in Callers |-> IdleThread]
    /\ calls = << >>
    /\ uuids = 0

NextGet ==
    \/ \E key \in GetKeys, fn \in Converters \cup {"none"} : GetCall(1, key, fn)
    \/ \E key \in GetKeys : GetStrCall(1, key)
    \/ \E key \in GetKeys : GetIntCall(1, key)

SpecGet == InitGet /\ [][NextGet]_vars

\* ---------------------------------------------- replay on a written store
\* The callables replay is tried on: cache.store, and functions carrying the
\* store client as _redis under either name.
ReplayMethods ==
    {BoundStore, PyMethod(QualName, TRUE), PyMethod(WrapperQualName, TRUE)}

\* What the store may hold under the counter's key, an input list's and an
\* output list's: nothing (the empty set here), or one of these entries.
CounterEntries ==
    {StringEntry(IntRepr(1)), StringEntry(IntRepr(2)), StringEntry(<< 233 >>)}
InputEntries ==
    {ListEntry(<< Utf8Encode(ArgsStr(PyStr(<< 102, 111, 111 >>))) >>),
     ListEntry(<< Utf8Encode(ArgsStr(PyStr(<< 102, 111, 111 >>))),
                  Utf8Encode(ArgsStr(PyInt(42))) >>),
     StringEntry(<< 120 >>)}
OutputEntries ==
    {ListEntry(<< Utf8Encode(Uuid(1)) >>),
     ListEntry(<< Utf8Encode(Uuid(1)), Utf8Encode(Uuid(2)) >>),
     ListEntry(<< Utf8Encode(Uuid(1)), << 233 >> >>)}

\* The database d with the entry of es, if there is one, under key k.
PutIf(d, k, es) == IF es = {} THEN d ELSE Put(d, k, CHOOSE e \in es : TRUE)

\* A database from the entries chosen for each key (a set of at most one).
StoreOf(cs, is, os, vs) ==
    PutIf(PutIf(PutIf(PutIf(EmptyDb, Utf8Encode(QualName), cs),
                      Utf8Encode(InputsKey), is),
                Utf8Encode(OutputsKey), os),
          Utf8Encode(Uuid(1)), vs)

AtMostOne(S) == {{}} \cup {{e} : e \in S}

ReplayStores ==
    {StoreOf(cs, is, os, vs) :
        cs \in AtMostOne(CounterEntries), is \in AtMostOne(InputEntries),
        os \in AtMostOne(OutputEntries),
        vs \in AtMostOne({StringEntry(<< 102, 111, 111 >>)})}

InitReplay ==
    /\ db \in {d \in ReplayStores : TRUE}
    /\ threads = [t \in Callers |-> IdleThread]
    /\ calls = << >>
    /\ uuids = 0

NextReplay ==
    \/ \E method \in ReplayMethods : ReplayCall(1, method)
    \/ Construct(1)

SpecReplay == InitReplay /\ [][NextReplay]_vars

\* ------------------------------------- the operations one after the other
\* One caller of the two decorated operations and of get, get_str, get_int
\* and replay, each call made once the call before it has ended; the store
\* answers every command.
NextUse ==
    \/ \E data \in WrapData :
          Start(1, "count_calls", NewFrame("count_calls", "store", data), data)
    \/ \E data \in WrapData :
          Start(1, "call_history", NewFrame("call_history", "store", data), data)
    \/ Step(1, FALSE)
    \/ \E key \in {Uuid(1), QualName} : GetCall(1, key, "none")
    \/ GetStrCall(1, Uuid(1))
    \/ GetIntCall(1, QualName)
    \/ \E method \in {BoundStore, PyMethod(QualName, TRUE)} : ReplayCall(1, method)

SpecUse == Init /\ [][NextUse]_vars

\* ------------------------------------------------------------ observations
\* lrange of the two history lists, and the counter as a number (absent: 0).
InputsLog == RedisLrange(db, Utf8Encode(InputsKey))
OutputsLog == RedisLrange(db, Utf8Encode(OutputsKey))
CounterValue ==
    IF Utf8Encode(QualName) \in DOMAIN db
    THEN IntParse(db[Utf8Encode(QualName)].str).n ELSE 0

\* The value entry under key holds the encoded form of data.
Holds(key, data) ==
    /\ Utf8Encode(key) \in DOMAIN db
    /\ db[Utf8Encode(key)] = StringEntry(Encode(data))

\* ------------------------------------------------------------------ claims

\* C1: once N calls of Cache.store have ended, one after the other, on a
\* fresh Cache, the counter is N, both logs have N entries, and entry i of
\* the input log is the i-th call's str(args) and entry i of the output log
\* the value the i-th call returned.
C1_SequentialHistory ==
    threads[1].status # "running" =>
        LET N == Len(calls) IN
        /\ CounterValue = N
        /\ Len(InputsLog) = N
        /\ Len(OutputsLog) = N
        /\ \A i \in 1..N :
              /\ InputsLog[i] = Utf8Encode(ArgsStr(calls[i].arg))
              /\ OutputsLog[i] = Encode(calls[i].result)

\* C2: in every state, a state in the middle of a store call included, the
\* input log is as long as the output log and as the counter's value.
C2_LengthsEqualCounter ==
    /\ Len(InputsLog) = Len(OutputsLog)
    /\ Len(OutputsLog) = CounterValue

\* C3: one call store(data) makes exactly one increment of the counter, one
\* append to the input log, one append to the output log and one write of
\* data.
C3_OneOfEach ==
    \A i \in 1..Len(calls) :
        calls[i].op = "store" =>
            /\ calls[i].eff.incr = 1
            /\ calls[i].eff.rpush_inputs = 1
            /\ calls[i].eff.rpush_outputs = 1
            /\ calls[i].eff.set = 1

\* C4: a call store(data), the store answering every command, returns: its
\* result is a key, str, under which the store holds data; it has not called
\* itself until the frames ran out.
C4_StoreReturnsKey ==
    \A i \in 1..Len(calls) :
        calls[i].op = "store" =>
            /\ calls[i].result.t = "str"
            /\ Holds(calls[i].result.s, calls[i].arg)

\* C5: get(K) without a converter, K being what store(v) returned, is v's
\* bytes: v itself when v is bytes, its encoded form otherwise.
C5_RoundTrip ==
    \A i \in 1..Len(calls) :
        calls[i].op = "store" =>
            /\ ~IsRaised(calls[i].result)
            /\ get(db, calls[i].result.s, "none").value
                 = PyBytes(IF calls[i].arg.t = "bytes" THEN calls[i].arg.s
                           ELSE Encode(calls[i].arg))

RECURSIVE SumEff(_, _)
\* The commands c the finished calls cs had acknowledged.
SumEff(cs, c) == IF cs = << >> THEN 0 ELSE cs[1].eff[c] + SumEff(Tail(cs), c)

RECURSIVE SumRunning(_, _)
\* The commands c the running calls of callers 1..n had acknowledged so far.
SumRunning(n, c) ==
    IF n = 0 THEN 0
    ELSE (IF threads[n].status = "running" THEN threads[n].eff[c] ELSE 0)
         + SumRunning(n - 1, c)

\* The commands c the store has acknowledged since the Cache was made.
Acked(c) == SumEff(calls, c) + SumRunning(NumCallers, c)

\* The call c ended because the wrapped method raised: the wrapper had
\* invoked it, and its set was not acknowledged.
MethodRaised(c) == IsRaised(c.result) /\ c.eff.invoked = 1 /\ c.eff.set = 0

IsLogged(c) == c.op = "call_history"
IsCounted(c) == c.op = "count_calls"

\* The calls of call_history(store) that pushed their output, in the order
\* they ended.
LoggedReturned == SelectSeq(calls, LAMBDA c : IsLogged(c) /\ c.eff.rpush_outputs = 1)

\* C6, as the spec states it: when the method call_history wraps raises, no
\* output entry is appended, the error reaches the caller, and the history
\* holds only paired entries: with no call running, as many inputs as outputs.
C6_OnlyPairedEntries ==
    \A i \in 1..Len(calls) :
        (IsLogged(calls[i]) /\ MethodRaised(calls[i])) =>
            /\ calls[i].eff.rpush_outputs = 0
            /\ calls[i].result = Raised("ConnectionError")
            /\ (Running = {} => Len(InputsLog) = Len(OutputsLog))

\* C6, amended: when the method call_history wraps raises, no output entry
\* is appended and the error reaches the caller, but the input entry pushed
\* before the call stays: every acknowledged push is in its log, so the
\* input log is longer than the output log by one entry for each such call.
C6_InputStaysUnpaired ==
    /\ \A i \in 1..Len(calls) :
          (IsLogged(calls[i]) /\ MethodRaised(calls[i])) =>
              /\ calls[i].eff.rpush_outputs = 0
              /\ calls[i].eff.rpush_inputs = 1
              /\ calls[i].result = Raised("ConnectionError")
    /\ Len(InputsLog) = Acked("rpush_inputs")
    /\ Len(OutputsLog) = Acked("rpush_outputs")

\* C6's case: a call whose method raised has ended, nothing is running, and
\* the input log holds its entry with no output beside it.
C6_Witness ==
    /\ Running = {}
    /\ \E i \in 1..Len(calls) : IsLogged(calls[i]) /\ MethodRaised(calls[i])
    /\ Len(InputsLog) = Len(OutputsLog) + 1
    /\ Len(OutputsLog) >= 1

\* C7: the counting wrapper has incremented the counter, once, when the
\* method it wraps begins; if the method raises the increment is kept (every
\* acknowledged increment is in the counter); if it returns, its result, the
\* key it wrote data under, is what the caller gets.
C7_IncrementBeforeMethod ==
    /\ \A t \in Callers :
          (threads[t].status = "running" /\ threads[t].op = "count_calls"
             /\ threads[t].stack[Len(threads[t].stack)].fn = "store") =>
              threads[t].eff.incr = 1
    /\ \A i \in 1..Len(calls) :
          IsCounted(calls[i]) =>
              /\ MethodRaised(calls[i]) =>
                    (calls[i].eff.incr = 1 /\ CounterValue >= 1)
              /\ ~IsRaised(calls[i].result) =>
                    /\ calls[i].eff.incr = 1
                    /\ calls[i].result.t = "str"
                    /\ Holds(calls[i].result.s, calls[i].arg)
    /\ CounterValue = Acked("incr")

\* C7's case: one counted call ended with its method raising, another
\* returned, and the counter holds both increments.
C7_Witness ==
    /\ \E i \in 1..Len(calls) : IsCounted(calls[i]) /\ MethodRaised(calls[i])
    /\ \E i \in 1..Len(calls) : IsCounted(calls[i]) /\ ~IsRaised(calls[i].result)
    /\ CounterValue = 2

\* The callers that have invoked the counted operation.
Counted == {t \in Callers : threads[t].op = "count_calls"}

\* C8: with several callers of the counted operation at once, no increment
\* is lost: once every invocation made has had its increment acknowledged,
\* the counter is the number of invocations.
C8_NoLostIncrement ==
    (\A t \in Counted : threads[t].eff.incr = 1) =>
        CounterValue = Cardinality(Counted)

\* C8's case: two counted calls in progress at once, both past their
\* increment.
C8_Witness ==
    /\ \E t \in Counted, u \in Counted :
          /\ t # u
          /\ threads[t].status = "running" /\ threads[u].status = "running"
          /\ threads[t].eff.incr = 1 /\ threads[u].eff.incr = 1
    /\ CounterValue = 2

\* C9: calls of a history-wrapped operation made at once lose and duplicate
\* nothing, but pair by position only by chance: the output log holds the
\* results in the order the calls ended, and the input log holds every
\* call's str(args), each once when all calls have returned.
C9_LogsKeepEveryCall ==
    /\ Len(OutputsLog) = Len(LoggedReturned)
    /\ \A k \in 1..Len(LoggedReturned) :
          /\ OutputsLog[k] = Encode(LoggedReturned[k].result)
          /\ \E j \in 1..Len(InputsLog) :
                InputsLog[j] = Utf8Encode(ArgsStr(LoggedReturned[k].arg))
    /\ (Running = {} /\ Len(InputsLog) = Len(OutputsLog)) =>
          \A j \in 1..Len(InputsLog) :
              Cardinality({i \in 1..Len(InputsLog) : InputsLog[i] = InputsLog[j]})
                = Cardinality({k \in 1..Len(LoggedReturned) :
                      Utf8Encode(ArgsStr(LoggedReturned[k].arg)) = InputsLog[j]})

\* C9's case: two calls have both returned and entry 1 of the output log is
\* not the result of the call whose arguments are entry 1 of the input log.
C9_Witness ==
    /\ Running = {}
    /\ Len(LoggedReturned) = 2
    /\ Len(InputsLog) = 2
    /\ Len(OutputsLog) = 2
    /\ \A k \in 1..2 : ~IsRaised(LoggedReturned[k].result)
    /\ OutputsLog[1] = Encode(LoggedReturned[1].result)
    /\ InputsLog[1] # Utf8Encode(ArgsStr(LoggedReturned[1].arg))

\* C10: get, get_str and get_int on a key the store does not hold return
\* None, with or without a converter, and call no converter.
C10_MissingKeyIsNone ==
    (/\ threads[1].status = "done"
     /\ threads[1].op \in {"get", "get_str", "get_int"}
     /\ Utf8Encode(threads[1].arg.s) \notin DOMAIN db) =>
        (threads[1].result = None /\ ~threads[1].converted)

\* C10's case: get with a converter asked for a key the store does not hold.
C10_Witness ==
    /\ threads[1].status = "done"
    /\ threads[1].op = "get"
    /\ threads[1].fn = "len"
    /\ Utf8Encode(threads[1].arg.s) \notin DOMAIN db
    /\ DOMAIN db # {}
    /\ threads[1].result = None

\* The bytes under the key of caller 1's last call.
RawOfLast == db[Utf8Encode(threads[1].arg.s)].str

\* Caller 1's last call was op, on a key that holds bytes.
LastOn(op) ==
    /\ threads[1].status = "done"
    /\ threads[1].op = op
    /\ Utf8Encode(threads[1].arg.s) \in DOMAIN db
    /\ db[Utf8Encode(threads[1].arg.s)].type = "string"

\* What Python gives for bytes.decode("utf-8") and int(bytes) on the stored
\* bytes "foo", "42", "\xc3\xa9", "", " -7", "\xe9" and "1_0".
PythonDecode(bs) ==
    CASE bs = << 102, 111, 111 >> -> PyStr(<< 102, 111, 111 >>)
      [] bs = << 52, 50 >> -> PyStr(<< 52, 50 >>)
      [] bs = << 195, 169 >> -> PyStr(<< 233 >>)
      [] bs = << >> -> PyStr(<< >>)
      [] bs = << 32, 45, 55 >> -> PyStr(<< 32, 45, 55 >>)
      [] bs = << 233 >> -> Raised("UnicodeDecodeError")
      [] OTHER -> PyStr(<< 49, 95, 48 >>)
PythonInt(bs) ==
    CASE bs = << 52, 50 >> -> PyInt(42)
      [] bs = << 32, 45, 55 >> -> PyInt(0 - 7)
      [] bs = << 49, 95, 48 >> -> PyInt(10)
      [] OTHER -> Raised("ValueError")

\* C15: two calls of get in a row with the same key and converter, nothing
\* written between them, return the same value.
C15_GetTwiceSame == threads[1].again => threads[1].result = threads[1].prev

\* C15's case: get with the int converter called twice in a row on a key
\* that holds "42"; both calls returned 42.
C15_Witness ==
    /\ threads[1].again
    /\ threads[1].op = "get"
    /\ threads[1].fn = "int"
    /\ threads[1].result = PyInt(42)
    /\ threads[1].prev = PyInt(42)

\* C16: on a key that holds bytes, get_str returns get's bytes decoded as
\* UTF-8 and get_int their base-10 integer; when the converter fails on the
\* bytes the call raises its error and returns nothing.
C16_TypedGetters ==
    /\ LastOn("get_str") =>
          /\ get(db, threads[1].arg.s, "none").value = PyBytes(RawOfLast)
          /\ threads[1].result = PythonDecode(RawOfLast)
    /\ LastOn("get_int") =>
          /\ get(db, threads[1].arg.s, "none").value = PyBytes(RawOfLast)
          /\ threads[1].result = PythonInt(RawOfLast)

\* C16's case: get_int on a key holding "foo" raised ValueError.
C16_Witness ==
    /\ LastOn("get_int")
    /\ RawOfLast = << 102, 111, 111 >>
    /\ threads[1].result = Raised("ValueError")

\* C20: a call of get, get_str or get_int leaves the store as it was: every
\* value entry, the counter and both logs.
C20_GettersReadOnly ==
    [][threads'[1].op \in {"get", "get_str", "get_int"} => db' = db]_vars

\* C20's case: get with a converter has run on a key that holds bytes the
\* converter changes, and the entry is as it was.
C20_Witness ==
    /\ LastOn("get")
    /\ threads[1].fn = "int"
    /\ threads[1].result = PyInt(0 - 7)
    /\ RawOfLast = << 32, 45, 55 >>

\* Caller 1's last call was replay(method) / Cache().
Replayed(method) ==
    threads[1].status = "done" /\ threads[1].op = "replay" /\ threads[1].arg = method
Constructed == threads[1].status = "done" /\ threads[1].op = "__init__"

\* C11: a call of replay leaves the store as it was: every value entry, the
\* counter, the input log and the output log.
C11_ReplayWritesNothing == [][threads'[1].op = "replay" => db' = db]_vars

\* C11's case: replay has printed the header and two pair lines, and the
\* store holds the counter, both lists of two entries and the value entry.
C11_Witness ==
    /\ Replayed(PyMethod(QualName, TRUE))
    /\ threads[1].result = None
    /\ Len(threads[1].printed) = 3
    /\ CounterValue = 2
    /\ Len(InputsLog) = 2
    /\ Len(OutputsLog) = 2
    /\ Utf8Encode(Uuid(1)) \in DOMAIN db

\* C12: replay for a name whose counter key the store does not hold ends in
\* an error and prints nothing: no header line, with a count of zero or any
\* other.
C12_MissingCounterRaises ==
    \A method \in ReplayMethods :
        Replayed(method) /\ Utf8Encode(method.s) \notin DOMAIN db =>
            IsRaised(threads[1].result) /\ threads[1].printed = << >>

\* C12's case: the store client can be read off the callable, both lists
\* hold entries, the counter is missing; replay raised AttributeError.
C12_Witness ==
    /\ Replayed(PyMethod(QualName, TRUE))
    /\ Utf8Encode(QualName) \notin DOMAIN db
    /\ Len(InputsLog) = 2
    /\ Len(OutputsLog) = 2
    /\ threads[1].result = Raised("AttributeError")
    /\ threads[1].printed = << >>

\* C13: after store calls that have ended, one after the other,
\* replay(cache.store) returns having printed the header line with the name
\* and the counter, then one line per (input, output) pair in log order, as
\* many pair lines as the count printed and as calls were made.
C13_ReplayPrintsHistory ==
    Replayed(BoundStore) /\ Len(calls) >= 1 =>
        /\ threads[1].result = None
        /\ Len(threads[1].printed) = 1 + Len(calls)
        /\ Len(InputsLog) = Len(calls)
        /\ Len(OutputsLog) = Len(calls)
        /\ threads[1].printed[1]
              = QualName \o WasCalled \o IntRepr(CounterValue) \o Times
        /\ CounterValue = Len(calls)
        /\ \A i \in 1..Len(calls) :
              threads[1].printed[i + 1]
                 = QualName \o OpenArgs \o Utf8Decode(InputsLog[i]).s
                            \o Arrow \o Utf8Decode(OutputsLog[i]).s

\* C14: right after a Cache is constructed the store holds nothing: no
\* value entry, no counter, and both logs are empty.
C14_ConstructorClears ==
    Constructed =>
        /\ db = EmptyDb
        /\ Utf8Encode(QualName) \notin DOMAIN db
        /\ InputsLog = << >>
        /\ OutputsLog = << >>

\* C14's case: a Cache was constructed on a store that held a value entry,
\* a counter and both lists.
C14_Witness == Constructed /\ threads[1].arg = PyInt(4) /\ db = EmptyDb

\* The sequence a is the head of the sequence b.
IsPrefix(a, b) == Len(a) <= Len(b) /\ SubSeq(b, 1, Len(a)) = a

\* The counter in the store d as a number (absent: 0).
CounterOf(d) ==
    IF Utf8Encode(QualName) \in DOMAIN d
    THEN IntParse(d[Utf8Encode(QualName)].str).n ELSE 0

\* From the store d to the store e the counter stayed or went up by one and
\* was not removed, and each log kept its entries, in their places.
Grows(d, e) ==
    /\ CounterOf(e) \in {CounterOf(d), CounterOf(d) + 1}
    /\ Utf8Encode(QualName) \in DOMAIN d => Utf8Encode(QualName) \in DOMAIN e
    /\ IsPrefix(RedisLrange(d, Utf8Encode(InputsKey)),
                RedisLrange(e, Utf8Encode(InputsKey)))
    /\ IsPrefix(RedisLrange(d, Utf8Encode(OutputsKey)),
                RedisLrange(e, Utf8Encode(OutputsKey)))

\* C17: across calls of the decorated store, get, get_str, get_int and
\* replay, every step leaves the counter as it was or one higher and never
\* removes it, and leaves each log's entries where they were, adding at most
\* entries at the tail.
C17_CounterAndLogsGrow == [][Grows(db, db')]_vars

\* C17's case: after a counted call and two logged calls with different
\* arguments, replay has printed the header and two pair lines.
C17_Witness ==
    /\ Replayed(PyMethod(QualName, TRUE))
    /\ Len(threads[1].printed) = 3
    /\ CounterValue = 1
    /\ Len(InputsLog) = 2
    /\ Len(OutputsLog) = 2
    /\ InputsLog[1] # InputsLog[2]

\* C18: every call of store that has ended returned a key, different from
\* the key of every store call before it, and the value entry under each key
\* returned still holds the data of its call.
C18_FreshKeysKept ==
    \A i \in 1..Len(calls) :
        calls[i].op = "store" =>
            /\ calls[i].result.t = "str"
            /\ Holds(calls[i].result.s, calls[i].arg)
            /\ \A j \in 1..(i - 1) :
                  calls[j].op = "store" => calls[j].result # calls[i].result

\* C19: in every state, whatever calls of the history-wrapped operation have
\* returned, raised or are under way, the output log is no longer than the
\* input log.
C19_OutputsNotLonger == Len(OutputsLog) <= Len(InputsLog)

\* C19's case: two callers in the history wrapper, one returned and one
\* raised, the output log shorter than the input log.
C19_Witness ==
    /\ \E i, j \in 1..Len(calls) :
          /\ IsLogged(calls[i]) /\ IsLogged(calls[j])
          /\ ~IsRaised(calls[i].result)
          /\ IsRaised(calls[j].result)
    /\ Len(OutputsLog) = 1
    /\ Len(InputsLog) = 2

====
